---- MODULE Spec2Model ----
(***************************************************************************)
(* Physics core of js_game_svg: the collision predicate and the mover of   *)
(* jsgame.script.js (version 2.0), together with the mover of the original *)
(* variant (unnamed/part_000) that carries the distance-validity rule.     *)
(*                                                                         *)
(* Coordinates are kept in tenths of an SVG user unit, the resolution of   *)
(* setAttrValue (Math.round(value * 10) / 10) and of the collision         *)
(* tolerance (0.1).  svg_clean() truncates every x, y, width and height to *)
(* an integer and every velocity of main() is an integer, so every value   *)
(* the program holds is a multiple of Unit.                                *)
(***************************************************************************)
EXTENDS Integers, Sequences, FiniteSets

VARIABLES rects, last,
          left, right, jumping, fire, running,
          jumping_previous, jump_counter, ground_previous,
          frame, down

\* The input latch, the globals of main(), the record of the last tick and
\* the keys and on-screen buttons the user holds down.
game == << left, right, jumping, fire, running,
           jumping_previous, jump_counter, ground_previous, frame, down >>

vars == << rects, last, game >>

\* ------------------------------------------------------------------ scale
\* One SVG user unit, in tenths (setAttrValue keeps one decimal).
Unit == 10

\* const tolerance = 0.1, in tenths.
Tolerance == 1

\* let collided_with = null
null == 0

\* ----------------------------------------------------------------- bounds
\* Largest start coordinate (in units) along the long axis of a scene.
MaxPos == 6

\* Largest size (in units) of the first rectangle along the long axis.
MaxSize == 2

\* ------------------------------------------------------------- arithmetic
Abs(n) == IF n < 0 THEN -n ELSE n

Axes == {"x", "y"}

\* const sizeName = axis === "x" ? "width" : "height";
sizeName(axis) == IF axis = "x" THEN "width" ELSE "height"

\* The axis move() does not touch.
otherAxis(axis) == IF axis = "x" THEN "y" ELSE "x"

\* The velocities main() passes to move(): gravity 3, ascent -5, elevator
\* +1 / -1, run 3 * running with running in {-1, 0, +1}.
Velocities == {3 * Unit, -5 * Unit, Unit, -Unit, -3 * Unit, 0}

\* -------------------------------------------------------------- collision
\* getSVGRect: the bounding box of a rect / image element.
getSVGRect(elem) ==
    [left   |-> elem.x,
     right  |-> elem.x + elem.width,
     top    |-> elem.y,
     bottom |-> elem.y + elem.height]

\* collision with strict comparisons and no tolerance, as the variant that
\* preceded version 2.0 had it.
collision_strict(firstElement, secondElement) ==
    LET first  == getSVGRect(firstElement)
        second == getSVGRect(secondElement)
    IN  /\ first.left   < second.right
        /\ first.right  > second.left
        /\ first.top    < second.bottom
        /\ first.bottom > second.top

\* collision with a tolerance of one whole unit instead of a tenth.
collision_wide(firstElement, secondElement) ==
    LET first  == getSVGRect(firstElement)
        second == getSVGRect(secondElement)
    IN  /\ first.left   <= second.right  + Unit
        /\ first.right  >= second.left   - Unit
        /\ first.top    <= second.bottom + Unit
        /\ first.bottom >= second.top    - Unit

\* collision whose first comparison alone is strict and without tolerance.
collision_lopsided(firstElement, secondElement) ==
    LET first  == getSVGRect(firstElement)
        second == getSVGRect(secondElement)
    IN  /\ first.left   <  second.right
        /\ first.right  >= second.left   - Tolerance
        /\ first.top    <= second.bottom + Tolerance
        /\ first.bottom >= second.top    - Tolerance

\* collision(firstElement, secondElement) of version 2.0.
collision(firstElement, secondElement) ==
    LET first  == getSVGRect(firstElement)
        second == getSVGRect(secondElement)
    IN  /\ first.left   <= second.right  + Tolerance
        /\ first.right  >= second.left   - Tolerance
        /\ first.top    <= second.bottom + Tolerance
        /\ first.bottom >= second.top    - Tolerance

\* ------------------------------------------------------------------- move
\* getAttrValue(elem, attr): every attribute exists after svg_clean(), so
\* the fallbacks to 0 are never taken.
getAttrValue(elem, attr) == elem[attr]

\* setAttrValue(elem, attr, value): rounds to one decimal, which is exact
\* on values held in tenths.
setAttrValue(scene, e, attr, value) == [scene EXCEPT ![e][attr] = value]

\* new_position that keeps e where it was whenever it collides.
new_position_stay(scene, e, r, axis, vel, before) == before

\* new_position without the 1-unit separation gap.
new_position_nogap(scene, e, r, axis, vel, before) ==
    IF vel < 0
    THEN getAttrValue(scene[r], axis) + getAttrValue(scene[r], sizeName(axis))
    ELSE IF vel > 0
         THEN getAttrValue(scene[r], axis) - getAttrValue(scene[e], sizeName(axis))
         ELSE before

\* new_position that subtracts the obstacle's size instead of the entity's.
new_position_rsize(scene, e, r, axis, vel, before) ==
    IF vel < 0
    THEN getAttrValue(scene[r], axis) + getAttrValue(scene[r], sizeName(axis)) + Unit
    ELSE IF vel > 0
         THEN getAttrValue(scene[r], axis) - getAttrValue(scene[r], sizeName(axis)) - Unit
         ELSE before

\* new_position whose second branch is a plain else, so that a move of 0
\* clamps like a move toward larger coordinates.
new_position_else(scene, e, r, axis, vel, before) ==
    IF vel < 0
    THEN getAttrValue(scene[r], axis) + getAttrValue(scene[r], sizeName(axis)) + Unit
    ELSE getAttrValue(scene[r], axis) - getAttrValue(scene[e], sizeName(axis)) - Unit

\* The position move() gives e after colliding with r (lines 208-219).
new_position(scene, e, r, axis, vel, before) ==
    IF vel < 0
    THEN getAttrValue(scene[r], axis) + getAttrValue(scene[r], sizeName(axis)) + Unit
    ELSE IF vel > 0
         THEN getAttrValue(scene[r], axis) - getAttrValue(scene[e], sizeName(axis)) - Unit
         ELSE before

\* The for-loop without its break: every colliding rectangle is resolved in
\* turn and the last one is reported.
RECURSIVE scan_nobreak(_, _, _, _, _, _)
scan_nobreak(scene, i, e, axis, vel, before) ==
    IF i > Len(scene)
    THEN [scene |-> scene, collided_with |-> null]
    ELSE IF i = e \/ scene[i].traversable \/ scene[i].pattern
         THEN scan_nobreak(scene, i + 1, e, axis, vel, before)
         ELSE IF collision(scene[i], scene[e])
              THEN LET here == setAttrValue(scene, e, axis,
                                   new_position(scene, e, i, axis, vel, before))
                       rest == scan_nobreak(here, i + 1, e, axis, vel, before)
                   IN  IF rest.collided_with # null
                       THEN rest
                       ELSE [scene |-> here, collided_with |-> i]
              ELSE scan_nobreak(scene, i + 1, e, axis, vel, before)

\* The for-loop without the test for a pattern parent, as the original
\* variant had it.
RECURSIVE scan_nopattern(_, _, _, _, _, _)
scan_nopattern(scene, i, e, axis, vel, before) ==
    IF i > Len(scene)
    THEN [scene |-> scene, collided_with |-> null]
    ELSE IF i = e \/ scene[i].traversable
         THEN scan_nopattern(scene, i + 1, e, axis, vel, before)
         ELSE IF collision(scene[i], scene[e])
              THEN [scene |-> setAttrValue(scene, e, axis,
                                  new_position(scene, e, i, axis, vel, before)),
                    collided_with |-> i]
              ELSE scan_nopattern(scene, i + 1, e, axis, vel, before)

\* The for-loop of move() from rectangle i on: skips e itself, traversable
\* rectangles and children of a pattern, resolves the first collision and
\* breaks.
RECURSIVE scan(_, _, _, _, _, _)
scan(scene, i, e, axis, vel, before) ==
    IF i > Len(scene)
    THEN [scene |-> scene, collided_with |-> null]
    ELSE IF i = e \/ scene[i].traversable \/ scene[i].pattern
         THEN scan(scene, i + 1, e, axis, vel, before)
         ELSE IF collision(scene[i], scene[e])
              THEN [scene |-> setAttrValue(scene, e, axis,
                                  new_position(scene, e, i, axis, vel, before)),
                    collided_with |-> i]
              ELSE scan(scene, i + 1, e, axis, vel, before)

\* move that calls stopped on every zero displacement, collision or not.
move_nullstop(scene, e, axis, vel, cb) ==
    LET before     == getAttrValue(scene[e], axis)
        moved      == setAttrValue(scene, e, axis, before + vel)
        res        == scan(moved, 1, e, axis, vel, before)
        after      == getAttrValue(res.scene[e], axis)
        difference == after - before
    IN  [scene         |-> res.scene,
         before        |-> before,
         after         |-> after,
         difference    |-> difference,
         collided_with |-> res.collided_with,
         stopped       |-> IF cb /\ difference = 0
                           THEN << res.collided_with >>
                           ELSE << >>]

\* move(movable, axis, vel, stopped): the scene it leaves, what it returns
\* and the arguments of the calls it makes to stopped (cb says whether a
\* callback was supplied).
move(scene, e, axis, vel, cb) ==
    LET before     == getAttrValue(scene[e], axis)
        moved      == setAttrValue(scene, e, axis, before + vel)
        res        == scan(moved, 1, e, axis, vel, before)
        after      == getAttrValue(res.scene[e], axis)
        difference == after - before
    IN  [scene         |-> res.scene,
         before        |-> before,
         after         |-> after,
         difference    |-> difference,
         collided_with |-> res.collided_with,
         stopped       |-> IF cb /\ difference = 0 /\ res.collided_with # null
                           THEN << res.collided_with >>
                           ELSE << >>]

\* ------------------------------------------------------------------ state
\* A scene rectangle laid out with its long axis along o.
MkRect(o, a, sa, b, sb, trav, pat) ==
    IF o = "x"
    THEN [x |-> a * Unit, width |-> sa * Unit, y |-> b * Unit, height |-> sb * Unit,
          traversable |-> trav, pattern |-> pat]
    ELSE [y |-> a * Unit, height |-> sa * Unit, x |-> b * Unit, width |-> sb * Unit,
          traversable |-> trav, pattern |-> pat]

NoCall ==
    [variant |-> "none", e |-> null, axis |-> "x", vel |-> 0, cb |-> FALSE,
     before |-> 0, after |-> 0, difference |-> 0, collided_with |-> null,
     stopped |-> << >>]

\* Before the first tick nothing has been observed.
NoTick ==
    [ticked |-> FALSE, calls |-> << >>, events |-> << >>, ground |-> null,
     y_difference |-> 0, jump |-> FALSE, counted |-> 0, roof |-> FALSE,
     intent |-> FALSE, age |-> 0, held |-> 0]

\* The globals as declared (lines 269-271 and 402-406).  ground_previous is
\* only ever tested with !, so false and null are one value here.
Idle ==
    /\ left = FALSE
    /\ right = FALSE
    /\ jumping = FALSE
    /\ fire = FALSE
    /\ running = 0
    /\ jumping_previous = FALSE
    /\ jump_counter = 0
    /\ ground_previous = null
    /\ frame = NoTick
    /\ down = {}

\* The scene as loaded and cleaned: three rect / image elements in document
\* order, integer valued.  Only relative positions matter, so the first is
\* pinned in the middle, with any size, and the others, 1 unit long, lie
\* anywhere along the long axis; across it the second is level with the
\* first and the third touches it, is level with it or is clear of it.  The
\* third may be tagged traversable or be the child of a pattern.
InitMove ==
    /\ \E o \in Axes, s1 \in 1..MaxSize,
          a2 \in 0..MaxPos,
          a3 \in 0..MaxPos, b3 \in {0, 1, 3},
          f3 \in {"solid", "traversable", "pattern"} :
          rects = << MkRect(o, MaxPos \div 2, s1, 1, 1, FALSE, FALSE),
                     MkRect(o, a2, 1, 1, 1, FALSE, FALSE),
                     MkRect(o, a3, 1, b3, 1, f3 = "traversable", f3 = "pattern") >>
    /\ last = NoCall
    /\ Idle

\* One call move(e, axis, vel, stopped) of version 2.0.
MoveCall(e, axis, vel, cb) ==
    /\ last.e = null
    /\ LET m == move(rects, e, axis, vel, cb)
       IN  /\ rects' = m.scene
           /\ last' = [variant |-> "v2", e |-> e, axis |-> axis, vel |-> vel, cb |-> cb,
                       before |-> m.before, after |-> m.after,
                       difference |-> m.difference,
                       collided_with |-> m.collided_with,
                       stopped |-> m.stopped]
    /\ UNCHANGED game

NextMove ==
    \E e \in 1..Len(rects), axis \in Axes, vel \in Velocities, cb \in BOOLEAN :
        MoveCall(e, axis, vel, cb)

SpecMove == InitMove /\ [][NextMove]_vars

\* --------------------------------------------- the original variant's move
\* collision(firstElement, secondElement) of the original variant: closed
\* comparison of the two bounding rectangles, no tolerance.
collision000(firstElement, secondElement) ==
    LET first  == getSVGRect(firstElement)
        second == getSVGRect(secondElement)
    IN  /\ first.left   <= second.right
        /\ first.right  >= second.left
        /\ first.top    <= second.bottom
        /\ first.bottom >= second.top

\* new_position000 that leaves e at its tentative position when the clamp
\* is not valid.
new_position000_tentative(scene, e, r, axis, vel, before) ==
    IF vel < 0
    THEN LET new_position_lt == Unit + scene[r][axis] + scene[r][sizeName(axis)]
             valid == Abs(new_position_lt - before) <= Abs(vel)
         IN  IF valid THEN new_position_lt ELSE before + vel
    ELSE IF vel > 0
         THEN LET new_position_gt == -Unit + scene[r][axis] - scene[e][sizeName(axis)]
                  valid == Abs(new_position_gt - before) <= Abs(vel)
              IN  IF valid THEN new_position_gt ELSE before + vel
         ELSE before

\* The position the original move() gives e after colliding with r: the
\* clamp when it is valid (no farther from before than |vel|), else before.
new_position000(scene, e, r, axis, vel, before) ==
    IF vel < 0
    THEN LET new_position_lt == Unit + scene[r][axis] + scene[r][sizeName(axis)]
             valid == Abs(new_position_lt - before) <= Abs(vel)
         IN  IF valid THEN new_position_lt ELSE before
    ELSE IF vel > 0
         THEN LET new_position_gt == -Unit + scene[r][axis] - scene[e][sizeName(axis)]
                  valid == Abs(new_position_gt - before) <= Abs(vel)
              IN  IF valid THEN new_position_gt ELSE before
         ELSE before

\* The for-loop of the original move() from rectangle i on: it skips e and
\* traversable rectangles only, and it does not break, so every rectangle
\* colliding with e where e then stands is resolved in turn; cw is the
\* last one so far.
RECURSIVE scan000(_, _, _, _, _, _, _)
scan000(scene, i, e, axis, vel, before, cw) ==
    IF i > Len(scene)
    THEN [scene |-> scene, collided_with |-> cw]
    ELSE IF i = e \/ scene[i].traversable
         THEN scan000(scene, i + 1, e, axis, vel, before, cw)
         ELSE IF collision000(scene[i], scene[e])
              THEN scan000([scene EXCEPT ![e][axis] =
                                new_position000(scene, e, i, axis, vel, before)],
                           i + 1, e, axis, vel, before, i)
              ELSE scan000(scene, i + 1, e, axis, vel, before, cw)

\* move(movable, axis, vel, stopped) of the original variant; stopped is
\* called whenever the displacement is 0, also with null.
move000(scene, e, axis, vel, cb) ==
    LET before     == scene[e][axis]
        moved      == [scene EXCEPT ![e][axis] = before + vel]
        res        == scan000(moved, 1, e, axis, vel, before, null)
        after      == res.scene[e][axis]
        difference == after - before
    IN  [scene         |-> res.scene,
         before        |-> before,
         after         |-> after,
         difference    |-> difference,
         collided_with |-> res.collided_with,
         stopped       |-> IF cb /\ difference = 0
                           THEN << res.collided_with >>
                           ELSE << >>]

\* One call move(e, axis, vel, stopped) of the original variant.
MoveCall000(e, axis, vel, cb) ==
    /\ last.e = null
    /\ LET m == move000(rects, e, axis, vel, cb)
       IN  /\ rects' = m.scene
           /\ last' = [variant |-> "original", e |-> e, axis |-> axis, vel |-> vel,
                       cb |-> cb, before |-> m.before, after |-> m.after,
                       difference |-> m.difference,
                       collided_with |-> m.collided_with,
                       stopped |-> m.stopped]
    /\ UNCHANGED game

NextMove000 ==
    \E e \in 1..Len(rects), axis \in Axes, vel \in Velocities, cb \in BOOLEAN :
        MoveCall000(e, axis, vel, cb)

SpecMove000 == InitMove /\ [][NextMove000]_vars

\* ------------------------------------------------------------- the game tick
\* jump_counter = 15
JumpTicks == 15

\* One element of the tick scenes: what svg_clean leaves of a rect or image,
\* with its id and class and the properties main() hangs on an elevator
\* (elevator_vel is unset, is_on_elevator_previous falsy, until first used).
Element(id, class, x, y, width, height) ==
    [x |-> x * Unit, y |-> y * Unit, width |-> width * Unit, height |-> height * Unit,
     traversable |-> FALSE, pattern |-> FALSE, id |-> id, class |-> class,
     elevator_vel |-> null, is_on_elevator_previous |-> FALSE]

\* document.querySelector("#id"): the first element with that id.
querySelector(scene, id) ==
    CHOOSE i \in 1..Len(scene) :
        scene[i].id = id /\ \A j \in 1..(i - 1) : scene[j].id # id

\* document.querySelectorAll(".class") from element i on, in document order.
RECURSIVE querySelectorAll(_, _, _)
querySelectorAll(scene, class, i) ==
    IF i > Len(scene)
    THEN << >>
    ELSE (IF scene[i].class = class THEN << i >> ELSE << >>)
         \o querySelectorAll(scene, class, i + 1)

\* What one call of move() in a tick did.
Step(name, e, axis, vel, mv) ==
    [step |-> name, e |-> e, axis |-> axis, vel |-> vel,
     difference |-> mv.difference, collided_with |-> mv.collided_with,
     stopped |-> mv.stopped # << >>]

\* The gravity move at 2 units a tick.
gravity_slow(scene, m) == move(scene, m, "y", 2 * Unit, TRUE)

\* move(m, "y", 3, callback): the gravity move (line 299).
gravity(scene, m) == move(scene, m, "y", 3 * Unit, TRUE)

\* ground taken from any collision of the gravity move.
ground_of_collision(g) == g.collided_with

\* let ground = null, assigned by the gravity callback (lines 298-300).
ground_of(g) == IF g.stopped = << >> THEN null ELSE g.stopped[1]

\* A velocity negated in every tick, blocked or not.
reversed_always(elevator_vel, mv, m) == -elevator_vel

\* A velocity negated only when the elevator is blocked on its way down.
reversed_going_down(elevator_vel, mv, m) ==
    IF mv.stopped # << >> /\ elevator_vel > 0 THEN -elevator_vel ELSE elevator_vel

\* A velocity negated only when the elevator is blocked on its way up.
reversed_going_up(elevator_vel, mv, m) ==
    IF mv.stopped # << >> /\ elevator_vel < 0 THEN -elevator_vel ELSE elevator_vel

\* A velocity kept when it is the player that blocks the elevator.
reversed_by_scenery(elevator_vel, mv, m) ==
    IF mv.stopped # << >> /\ mv.stopped[1] # m THEN -elevator_vel ELSE elevator_vel

\* elevator_vel after the callback of the elevator's own move (lines
\* 327-337): negated in both branches, untouched when it is not called.
reversed(elevator_vel, mv, m) ==
    IF mv.stopped # << >> THEN -elevator_vel ELSE elevator_vel

\* The loop of the preceding variant, which couples the player only to an
\* elevator going up.
RECURSIVE elevators_coupled_up(_, _, _, _)
elevators_coupled_up(st, es, ground, m) ==
    IF es = << >>
    THEN st
    ELSE LET elevator == Head(es)
             s0  == IF st.scene[elevator].elevator_vel = null
                    THEN [st.scene EXCEPT ![elevator].elevator_vel = Unit]
                    ELSE st.scene
             vel == s0[elevator].elevator_vel
             is_on_elevator == ground = elevator /\ vel < 0
             s1  == [s0 EXCEPT ![elevator].is_on_elevator_previous = is_on_elevator]
             pm  == move(s1, m, "y", vel, TRUE)
             s2  == IF is_on_elevator THEN pm.scene ELSE s1
             em  == move(s2, elevator, "y", vel, TRUE)
             s3  == [em.scene EXCEPT ![elevator].elevator_vel = reversed(vel, em, m)]
         IN  elevators_coupled_up(
                 [scene  |-> s3,
                  calls  |-> st.calls
                             \o (IF is_on_elevator
                                 THEN << Step("coupled", m, "y", vel, pm) >>
                                 ELSE << >>)
                             \o << Step("elevator", elevator, "y", vel, em) >>,
                  events |-> st.events
                             \o (IF is_on_elevator
                                    /\ ~s0[elevator].is_on_elevator_previous
                                 THEN << "is on elevator" >> ELSE << >>)
                             \o (IF is_on_elevator /\ pm.stopped # << >>
                                 THEN << "elevator stopped while carrying player" >>
                                 ELSE << >>)
                             \o (IF em.stopped = << >> THEN << >>
                                 ELSE IF em.stopped[1] = m
                                      THEN << "elevator collided with player" >>
                                      ELSE << "elevator: direction inverted" >>)],
                 Tail(es), ground, m)

\* The loop over the elevators (lines 310-338), es being those still to do.
RECURSIVE elevators(_, _, _, _)
elevators(st, es, ground, m) ==
    IF es = << >>
    THEN st
    ELSE LET elevator == Head(es)
             s0  == IF st.scene[elevator].elevator_vel = null
                    THEN [st.scene EXCEPT ![elevator].elevator_vel = Unit]
                    ELSE st.scene
             vel == s0[elevator].elevator_vel
             is_on_elevator == ground = elevator
             s1  == [s0 EXCEPT ![elevator].is_on_elevator_previous = is_on_elevator]
             pm  == move(s1, m, "y", vel, TRUE)
             s2  == IF is_on_elevator THEN pm.scene ELSE s1
             em  == move(s2, elevator, "y", vel, TRUE)
             s3  == [em.scene EXCEPT ![elevator].elevator_vel = reversed(vel, em, m)]
         IN  elevators(
                 [scene  |-> s3,
                  calls  |-> st.calls
                             \o (IF is_on_elevator
                                 THEN << Step("coupled", m, "y", vel, pm) >>
                                 ELSE << >>)
                             \o << Step("elevator", elevator, "y", vel, em) >>,
                  events |-> st.events
                             \o (IF is_on_elevator
                                    /\ ~s0[elevator].is_on_elevator_previous
                                 THEN << "is on elevator" >> ELSE << >>)
                             \o (IF is_on_elevator /\ pm.stopped # << >>
                                 THEN << "elevator stopped while carrying player" >>
                                 ELSE << >>)
                             \o (IF em.stopped = << >> THEN << >>
                                 ELSE IF em.stopped[1] = m
                                      THEN << "elevator collided with player" >>
                                      ELSE << "elevator: direction inverted" >>)],
                 Tail(es), ground, m)

\* A jump started on every tick that reads the intent true on a ground.
jump_starts_level(jumping_now, jumping_before, ground) ==
    jumping_now /\ ground # null

\* A jump started on every rising edge, grounded or not.
jump_starts_anywhere(jumping_now, jumping_before, ground) ==
    jumping_now /\ ~jumping_before

\* jumping && !jumping_previous && ground != null (line 341).
jump_starts(jumping_now, jumping_before, ground) ==
    jumping_now /\ ~jumping_before /\ ground # null

\* A counter that loses two a tick.
countdown_double(counter) == counter - 2

\* A counter that is never counted down.
countdown_none(counter) == counter

\* jump_counter-- (line 348).
countdown(counter) == counter - 1

\* A roof that is never hit.
roof_hit_never(y_difference, counter) == FALSE

\* A roof hit in every tick that does not take the player down.
roof_hit_rising(y_difference, counter) == y_difference <= 0 /\ counter > 0

\* y_difference === 0 && jump_counter > 0 (line 352).
roof_hit(y_difference, counter) == y_difference = 0 /\ counter > 0

\* A chain that tests left before it tests both.
run_direction_left_first(l, r) ==
    IF l THEN -1 ELSE IF r THEN 1 ELSE 0

\* running as the if / else chain over left and right sets it (lines 359-371).
run_direction(l, r) ==
    IF l /\ r THEN 0 ELSE IF l THEN -1 ELSE IF r THEN 1 ELSE 0

\* The run step left out when the player stands still.
run_if_moving(st, m, l, r) ==
    LET dir == run_direction(l, r)
        rn  == move(st.scene, m, "x", 3 * dir * Unit, FALSE)
    IN  IF dir = 0
        THEN [scene |-> st.scene, calls |-> st.calls, running |-> dir]
        ELSE [scene |-> rn.scene,
              calls |-> st.calls \o << Step("run", m, "x", 3 * dir * Unit, rn) >>,
              running |-> dir]

\* The run step (lines 359-373).
run(st, m, l, r) ==
    LET dir == run_direction(l, r)
        rn  == move(st.scene, m, "x", 3 * dir * Unit, FALSE)
    IN  [scene |-> rn.scene,
         calls |-> st.calls \o << Step("run", m, "x", 3 * dir * Unit, rn) >>,
         running |-> dir]

\* A landing reported in every tick that has a ground.
hit_the_ground_level(ground, ground_before) == ground # null

\* ground && !ground_previous (line 301).
hit_the_ground(ground, ground_before) == ground # null /\ ground_before = null

\* main() (lines 284-374) on scene, latch and globals: everything it leaves
\* behind and everything it did on the way.
main(scene, l, r, j, jp, jc, gp) ==
    LET m       == querySelector(scene, "movable")
        g       == gravity(scene, m)
        ground  == ground_of(g)
        E       == elevators(
                       [scene  |-> g.scene,
                        calls  |-> << Step("gravity", m, "y", 3 * Unit, g) >>,
                        events |-> IF hit_the_ground(ground, gp)
                                   THEN << "hit the ground" >> ELSE << >>],
                       querySelectorAll(g.scene, "elevator", 1), ground, m)
        starts  == jump_starts(j, jp, ground)
        jc1     == IF starts THEN JumpTicks ELSE jc
        ascends == jc1 > 0
        asc     == move(E.scene, m, "y", -5 * Unit, FALSE)
        jc2     == IF ascends THEN countdown(jc1) ELSE jc1
        yd      == g.difference + (IF ascends THEN asc.difference ELSE 0)
        roof    == roof_hit(yd, jc2)
        R       == run([scene |-> IF ascends THEN asc.scene ELSE E.scene,
                        calls |-> E.calls
                                  \o (IF ascends
                                      THEN << Step("ascent", m, "y", -5 * Unit, asc) >>
                                      ELSE << >>)],
                       m, l, r)
    IN  [rects            |-> R.scene,
         running          |-> R.running,
         jumping_previous |-> j,
         jump_counter     |-> IF roof THEN 0 ELSE jc2,
         ground_previous  |-> ground,
         ground           |-> ground,
         y_difference     |-> yd,
         jump             |-> starts,
         counted          |-> jc2,
         roof             |-> roof,
         calls            |-> R.calls,
         events           |-> E.events
                              \o (IF starts THEN << "jumping" >> ELSE << >>)
                              \o (IF roof THEN << "roof hit" >> ELSE << >>)]

\* ------------------------------------------- the preceding variant's tick
\* collision(firstElement, secondElement) of the preceding variant: strict
\* comparison of the two bounding rectangles, no tolerance.
collision001(firstElement, secondElement) ==
    LET first  == getSVGRect(firstElement)
        second == getSVGRect(secondElement)
    IN  /\ first.left   < second.right
        /\ first.right  > second.left
        /\ first.top    < second.bottom
        /\ first.bottom > second.top

\* The position the preceding move() gives e after colliding with r: edge
\* to edge with r when that is no farther from before than |vel|, else
\* before.
new_position001(scene, e, r, axis, vel, before) ==
    IF vel < 0
    THEN LET new_position_lt == scene[r][axis] + scene[r][sizeName(axis)]
             valid == Abs(new_position_lt - before) <= Abs(vel)
         IN  IF valid THEN new_position_lt ELSE before
    ELSE IF vel > 0
         THEN LET new_position_gt == scene[r][axis] - scene[e][sizeName(axis)]
                  valid == Abs(new_position_gt - before) <= Abs(vel)
              IN  IF valid THEN new_position_gt ELSE before
         ELSE before

\* The for-loop of the preceding move() from rectangle i on: it skips e,
\* traversable rectangles and children of a pattern, and it does not break;
\* cw is the last rectangle collided with so far.
RECURSIVE scan001(_, _, _, _, _, _, _)
scan001(scene, i, e, axis, vel, before, cw) ==
    IF i > Len(scene)
    THEN [scene |-> scene, collided_with |-> cw]
    ELSE IF i = e \/ scene[i].traversable \/ scene[i].pattern
         THEN scan001(scene, i + 1, e, axis, vel, before, cw)
         ELSE IF collision001(scene[i], scene[e])
              THEN scan001([scene EXCEPT ![e][axis] =
                                new_position001(scene, e, i, axis, vel, before)],
                           i + 1, e, axis, vel, before, i)
              ELSE scan001(scene, i + 1, e, axis, vel, before, cw)

\* move(movable, axis, vel, stopped) of the preceding variant; stopped is
\* called whenever the displacement is 0, also with null.
move001(scene, e, axis, vel, cb) ==
    LET before     == scene[e][axis]
        moved      == [scene EXCEPT ![e][axis] = before + vel]
        res        == scan001(moved, 1, e, axis, vel, before, null)
        after      == res.scene[e][axis]
        difference == after - before
    IN  [scene         |-> res.scene,
         before        |-> before,
         after         |-> after,
         difference    |-> difference,
         collided_with |-> res.collided_with,
         stopped       |-> IF cb /\ difference = 0
                           THEN << res.collided_with >>
                           ELSE << >>]

\* The loop over the elevators of the preceding variant: the player is
\* moved with the elevator it stands on only when that goes up, and an
\* elevator stopped by the player keeps its velocity.
RECURSIVE elevators001(_, _, _, _)
elevators001(st, es, ground, m) ==
    IF es = << >>
    THEN st
    ELSE LET elevator == Head(es)
             s0  == IF st.scene[elevator].elevator_vel = null
                    THEN [st.scene EXCEPT ![elevator].elevator_vel = Unit]
                    ELSE st.scene
             vel == s0[elevator].elevator_vel
             is_on_elevator == ground = elevator
             coupled == vel < 0 /\ is_on_elevator
             s1  == [s0 EXCEPT ![elevator].is_on_elevator_previous = is_on_elevator]
             pm  == move001(s1, m, "y", vel, TRUE)
             s2  == IF coupled THEN pm.scene ELSE s1
             em  == move001(s2, elevator, "y", vel, TRUE)
             s3  == [em.scene EXCEPT ![elevator].elevator_vel =
                         IF em.stopped # << >> /\ em.stopped[1] # m
                         THEN -vel ELSE vel]
         IN  elevators001(
                 [scene  |-> s3,
                  calls  |-> st.calls
                             \o (IF coupled
                                 THEN << Step("coupled", m, "y", vel, pm) >>
                                 ELSE << >>)
                             \o << Step("elevator", elevator, "y", vel, em) >>,
                  events |-> st.events
                             \o (IF is_on_elevator
                                    /\ ~s0[elevator].is_on_elevator_previous
                                 THEN << "is on elevator" >> ELSE << >>)
                             \o (IF coupled /\ pm.stopped # << >>
                                 THEN << "elevator stopped" >> ELSE << >>)
                             \o (IF em.stopped # << >> /\ em.stopped[1] # m
                                 THEN << "elevator: direction inverted" >>
                                 ELSE << >>)],
                 Tail(es), ground, m)

\* main() of the preceding variant on scene, latch and globals; its gravity,
\* jump and run steps read as those of main() above, with the preceding
\* move().
main001(scene, l, r, j, jp, jc, gp) ==
    LET m       == querySelector(scene, "movable")
        g       == move001(scene, m, "y", 3 * Unit, TRUE)
        ground  == IF g.stopped = << >> THEN null ELSE g.stopped[1]
        E       == elevators001(
                       [scene  |-> g.scene,
                        calls  |-> << Step("gravity", m, "y", 3 * Unit, g) >>,
                        events |-> IF ground # null /\ gp = null
                                   THEN << "hit the ground" >> ELSE << >>],
                       querySelectorAll(g.scene, "elevator", 1), ground, m)
        starts  == j /\ ~jp /\ ground # null
        jc1     == IF starts THEN 15 ELSE jc
        ascends == jc1 > 0
        asc     == move001(E.scene, m, "y", -5 * Unit, FALSE)
        jc2     == IF ascends THEN jc1 - 1 ELSE jc1
        yd      == g.difference + (IF ascends THEN asc.difference ELSE 0)
        roof    == yd = 0 /\ jc2 > 0
        dir     == IF l /\ r THEN 0 ELSE IF l THEN -1 ELSE IF r THEN 1 ELSE 0
        rn      == move001(IF ascends THEN asc.scene ELSE E.scene,
                           m, "x", 3 * dir * Unit, FALSE)
    IN  [rects            |-> rn.scene,
         running          |-> dir,
         jumping_previous |-> j,
         jump_counter     |-> IF roof THEN 0 ELSE jc2,
         ground_previous  |-> ground,
         ground           |-> ground,
         y_difference     |-> yd,
         jump             |-> starts,
         counted          |-> jc2,
         roof             |-> roof,
         calls            |-> E.calls
                              \o (IF ascends
                                  THEN << Step("ascent", m, "y", -5 * Unit, asc) >>
                                  ELSE << >>)
                              \o << Step("run", m, "x", 3 * dir * Unit, rn) >>,
         events           |-> E.events
                              \o (IF starts THEN << "jumping" >> ELSE << >>)
                              \o (IF roof THEN << "roof hit" >> ELSE << >>)]

\* ------------------------------------------------------------ the frame loop
\* One run of main() by the frame loop (lines 253-266), and what it showed.
\* age counts the ticks of the jump under way (0 when none is, or a roof
\* ended it) and held the jumps started since the intent was last read false.
Tick ==
    /\ \E t \in {main(rects, left, right, jumping,
                      jumping_previous, jump_counter, ground_previous)} :
           /\ rects' = t.rects
           /\ running' = t.running
           /\ jumping_previous' = t.jumping_previous
           /\ jump_counter' = t.jump_counter
           /\ ground_previous' = t.ground_previous
           /\ frame' = [ticked       |-> TRUE,
                        calls        |-> t.calls,
                        events       |-> t.events,
                        ground       |-> t.ground,
                        y_difference |-> t.y_difference,
                        jump         |-> t.jump,
                        counted      |-> t.counted,
                        roof         |-> t.roof,
                        intent       |-> jumping,
                        age          |-> IF t.roof THEN 0
                                         ELSE IF t.jump THEN 1
                                         ELSE IF frame.age \in 1..(JumpTicks - 1)
                                              THEN frame.age + 1
                                              ELSE 0,
                        held         |-> IF ~jumping THEN 0
                                         ELSE IF t.jump /\ frame.held < 2
                                              THEN frame.held + 1
                                              ELSE frame.held]
    /\ UNCHANGED << last, left, right, jumping, fire, down >>

Keys == {"ArrowLeft", "ArrowRight", "ArrowUp", " "}

Buttons == {"left", "right", "third"}

\* A latch whose fire intent, when pressed, presses the jump intent too.
Latched_fire_jumps(l, r, j, f) ==
    /\ left' = l
    /\ right' = r
    /\ jumping' = (j \/ (f /\ ~fire))
    /\ fire' = f
    /\ UNCHANGED << rects, last, running, jumping_previous, jump_counter,
                    ground_previous, frame >>

\* The latch after a key event or a button event wrote value to its intent.
Latched(l, r, j, f) ==
    /\ left' = l
    /\ right' = r
    /\ jumping' = j
    /\ fire' = f
    /\ UNCHANGED << rects, last, running, jumping_previous, jump_counter,
                    ground_previous, frame >>

\* A key-down handler that turns the player at once.
onkeydown_immediate(key) ==
    /\ left' = (IF key = "ArrowLeft" THEN TRUE ELSE left)
    /\ right' = (IF key = "ArrowRight" THEN TRUE ELSE right)
    /\ jumping' = (IF key = "ArrowUp" THEN TRUE ELSE jumping)
    /\ fire' = (IF key = " " THEN TRUE ELSE fire)
    /\ running' = (IF key = "ArrowLeft" THEN -1
                   ELSE IF key = "ArrowRight" THEN 1 ELSE running)
    /\ UNCHANGED << rects, last, jumping_previous, jump_counter,
                    ground_previous, frame >>

\* onkeydown (lines 447-467).
onkeydown(key) ==
    Latched(IF key = "ArrowLeft" THEN TRUE ELSE left,
            IF key = "ArrowRight" THEN TRUE ELSE right,
            IF key = "ArrowUp" THEN TRUE ELSE jumping,
            IF key = " " THEN TRUE ELSE fire)

\* A key-up handler that cuts the jump short when the jump key is released.
onkeyup_cut_jump(key) ==
    /\ left' = (IF key = "ArrowLeft" THEN FALSE ELSE left)
    /\ right' = (IF key = "ArrowRight" THEN FALSE ELSE right)
    /\ jumping' = (IF key = "ArrowUp" THEN FALSE ELSE jumping)
    /\ fire' = (IF key = " " THEN FALSE ELSE fire)
    /\ jump_counter' = (IF key = "ArrowUp" THEN 0 ELSE jump_counter)
    /\ UNCHANGED << rects, last, running, jumping_previous,
                    ground_previous, frame >>

\* onkeyup (lines 468-487).
onkeyup(key) ==
    Latched(IF key = "ArrowLeft" THEN FALSE ELSE left,
            IF key = "ArrowRight" THEN FALSE ELSE right,
            IF key = "ArrowUp" THEN FALSE ELSE jumping,
            IF key = " " THEN FALSE ELSE fire)

\* onmousedown = ontouchstart (lines 409-428).
onmousedown(id) ==
    Latched(IF id = "left" THEN TRUE ELSE left,
            IF id = "right" THEN TRUE ELSE right,
            IF id = "third" THEN TRUE ELSE jumping,
            fire)

\* onmouseup = ontouchend (lines 429-445).
onmouseup(id) ==
    Latched(IF id = "left" THEN FALSE ELSE left,
            IF id = "right" THEN FALSE ELSE right,
            IF id = "third" THEN FALSE ELSE jumping,
            fire)

\* Largest gap (in units) the player starts with above what is below it.
MaxDrop == 5

\* Largest gap (in units) an elevator starts with above the floor.
MaxTravel == 3

\* The scenery of the tick scenes is thicker than the fastest move (5
\* units), so that no move can reach across it.
\* Open ground: a floor between two walls that keep the player in place
\* sideways, the player g units above the floor, nothing overhead; behind
\* the right wall an elevator with 1 unit to travel between the floor and
\* a stop.
Field(g) ==
    << Element("floor", "", 0, 40, 8, 6),
       Element("wall_left", "", 0, 0, 1, 39),
       Element("wall_right", "", 4, 0, 1, 39),
       Element("movable", "", 2, 39 - g, 1, 1),
       Element("stop", "", 6, 26, 1, 6),
       Element("hoist", "elevator", 6, 34, 1, 5) >>

\* A closed shaft: ceiling, floor and walls, an elevator lh units thick ge
\* units above the floor and the player gp units above the elevator; behind
\* the right wall an elevator held between the floor and a stop, 1 unit
\* from each; far below the floor a second floor.
Shaft(ge, gp, lh) ==
    LET H == MaxTravel + 9
    IN  << Element("ceiling", "", 0, -5, 5, 6),
           Element("floor", "", 0, H + 1, 8, 6),
           Element("wall_left", "", 0, 2, 1, H - 2),
           Element("wall_right", "", 4, 2, 1, H - 2),
           Element("lift", "elevator", 2, H + 1 - ge - lh, 1, lh),
           Element("movable", "", 2, H - ge - lh - gp, 1, 1),
           Element("stop", "", 6, H - 12, 1, 6),
           Element("held", "elevator", 6, H - 5, 1, 5),
           Element("bedrock", "", 0, H + 11, 8, 6) >>

\* The scene as loaded and cleaned, before the first frame.
InitTick ==
    /\ \/ \E g \in 1..MaxDrop : rects = Field(g)
       \/ \E ge \in 1..MaxTravel, gp \in 1..2, lh \in {1, 5} : rects = Shaft(ge, gp, lh)
    /\ last = NoCall
    /\ Idle

\* Open ground with the player 1 unit above the floor and, behind the right
\* wall, the elevator 1 unit above the floor with t units to travel up to
\* the stop.
Yard(t) ==
    << Element("floor", "", 0, 40, 8, 6),
       Element("wall_left", "", 0, 0, 1, 39),
       Element("wall_right", "", 4, 0, 1, 39),
       Element("movable", "", 2, 38, 1, 1),
       Element("stop", "", 6, 27 - t, 1, 6),
       Element("hoist", "elevator", 6, 34, 1, 5) >>

InitYard ==
    /\ \E t \in 1..MaxTravel : rects = Yard(t)
    /\ last = NoCall
    /\ Idle

\* Any handler may run at any time; who holds what down is left open.
NextTick ==
    \/ Tick
    \/ \E key \in Keys : onkeydown(key) /\ UNCHANGED down
    \/ \E key \in Keys : onkeyup(key) /\ UNCHANGED down
    \/ \E id \in Buttons : onmousedown(id) /\ UNCHANGED down
    \/ \E id \in Buttons : onmouseup(id) /\ UNCHANGED down

SpecTick == InitTick /\ [][NextTick]_vars

\* A cell that holds the player in place: floor, ceiling and walls 1 unit
\* from it on every side, no elevator.
Cell ==
    << Element("ceiling", "", 0, -5, 5, 6),
       Element("floor", "", 0, 4, 5, 6),
       Element("wall_left", "", 0, 2, 1, 1),
       Element("wall_right", "", 4, 2, 1, 1),
       Element("movable", "", 2, 2, 1, 1) >>

InitInput ==
    /\ rects = Cell
    /\ last = NoCall
    /\ Idle

\* The handlers as the browser calls them for a user with a keyboard and
\* a touch screen: a key-down event when a key goes down and, repeated,
\* while it is held; a key-up event when a held key is let go; a mouse-down
\* or touch-start event when a button that is not held is pressed, a
\* mouse-up or touch-end event when a held button is let go.
NextInput ==
    \/ Tick
    \/ \E key \in Keys : onkeydown(key) /\ down' = down \cup {key}
    \/ \E key \in down \cap Keys : onkeyup(key) /\ down' = down \ {key}
    \/ \E id \in Buttons \ down : onmousedown(id) /\ down' = down \cup {id}
    \/ \E id \in down \cap Buttons : onmouseup(id) /\ down' = down \ {id}

SpecInput == InitInput /\ [][NextInput]_vars

\* ============================================================== properties
\* What the last call saw.  A call changes nothing but e's coordinate on
\* the moved axis, so the scene before it and the scene with e at its
\* tentative position are the present scene with that coordinate replaced.
Called == last.e # null

pre == [rects EXCEPT ![last.e][last.axis] = last.before]

tentative == [rects EXCEPT ![last.e][last.axis] = last.before + last.vel]

Sign(n) == IF n < 0 THEN -1 ELSE IF n > 0 THEN 1 ELSE 0

\* The rectangles that can block the moved entity.
Obstacles ==
    {r \in 1..Len(rects) : r # last.e /\ ~rects[r].traversable /\ ~rects[r].pattern}

\* Exact closed-interval test: the closed boxes of a and b intersect.
boxMeet(a, b) ==
    /\ a.x <= b.x + b.width
    /\ b.x <= a.x + a.width
    /\ a.y <= b.y + b.height
    /\ b.y <= a.y + a.height

\* The closed boxes of e and r intersect on the axis that is not moved.
overlapsAcross(scene, e, r, axis) ==
    LET o == otherAxis(axis)
    IN  /\ scene[e][o] <= scene[r][o] + scene[r][sizeName(o)]
        /\ scene[r][o] <= scene[e][o] + scene[e][sizeName(o)]

\* Distance on the moved axis between the edge of e that leads a move of
\* sign dir and the edge of r facing it (negative when e has passed it).
gap(scene, e, r, axis, dir) ==
    IF dir > 0
    THEN scene[r][axis] - (scene[e][axis] + scene[e][sizeName(axis)])
    ELSE scene[e][axis] - (scene[r][axis] + scene[r][sizeName(axis)])

\* Where e rests against r: 1 unit clear of it, on the side e came from.
clampAt(scene, e, r, axis, dir) ==
    IF dir < 0
    THEN scene[r][axis] + scene[r][sizeName(axis)] + Unit
    ELSE scene[r][axis] - scene[e][sizeName(axis)] - Unit

\* The obstacles whose box meets e's box at its tentative position.
Hits == {r \in Obstacles : boxMeet(tentative[r], tentative[last.e])}

\* r is the first obstacle, in store order, that the tentative position hits.
FirstHit(r) == r \in Hits /\ \A q \in Hits : r <= q

\* r lies ahead of e at gap g with 0 < g < |vel|, level with it across the
\* moved axis, and the tentative position meets r and nothing else (a move
\* longer than gap plus sizes carries e clean over r).
PartlyBlockedBy(r) ==
    /\ last.vel # 0
    /\ r \in Obstacles
    /\ overlapsAcross(pre, last.e, r, last.axis)
    /\ gap(pre, last.e, r, last.axis, last.vel) > 0
    /\ gap(pre, last.e, r, last.axis, last.vel) < Abs(last.vel)
    /\ Hits = {r}

\* C1 as stated: an entity partly blocked by an obstacle at gap g < |v| ends
\* exactly g from where it started, in the direction of v.
C1_MovesByWholeGap ==
    Called =>
        \A r \in Obstacles :
            PartlyBlockedBy(r) =>
                last.difference
                    = Sign(last.vel) * gap(pre, last.e, r, last.axis, last.vel)

\* C1 amended: an entity whose tentative position meets the only obstacle
\* ahead, at gap g < |v|, ends exactly g - 1 from where it started, in the
\* direction of v: it stops 1 unit short of the obstacle, and that obstacle
\* is the one reported.
C1_StopsOneUnitShort ==
    Called =>
        \A r \in Obstacles :
            PartlyBlockedBy(r) =>
                /\ last.difference
                     = Sign(last.vel)
                         * (gap(pre, last.e, r, last.axis, last.vel) - Unit)
                /\ last.collided_with = r

\* A move of 3 toward the only obstacle, 2 units ahead, has advanced by 1.
C1_Witness ==
    /\ Called
    /\ \E r \in Obstacles :
          /\ PartlyBlockedBy(r)
          /\ gap(pre, last.e, r, last.axis, last.vel) = 2 * Unit
          /\ last.vel = 3 * Unit
          /\ last.difference = Unit

\* e touches r edge to edge (zero gap) on the side it moves toward.
TouchingAhead(r) ==
    /\ last.vel # 0
    /\ r \in Obstacles
    /\ overlapsAcross(pre, last.e, r, last.axis)
    /\ gap(pre, last.e, r, last.axis, last.vel) = 0

\* e rests 1 unit from r, on the side it moves toward, and r is the first
\* obstacle the tentative position hits.
RestingAhead(r) ==
    /\ last.vel # 0
    /\ overlapsAcross(pre, last.e, r, last.axis)
    /\ gap(pre, last.e, r, last.axis, last.vel) = Unit
    /\ FirstHit(r)

\* C2 as stated: a move with a callback into an obstacle the entity touches
\* at zero gap has displacement 0 and calls stopped with that obstacle.
C2_ZeroGapIsResting ==
    (Called /\ last.cb) =>
        \A r \in Obstacles :
            TouchingAhead(r) =>
                /\ last.difference = 0
                /\ last.stopped = << r >>

\* C2 amended: resting contact is a gap of 1 unit.  A move into the first
\* obstacle it hits, from 1 unit away, has displacement 0 and calls stopped
\* (when supplied) once, with that obstacle; a move from zero gap into the
\* first obstacle it hits is pushed back 1 unit and calls nothing.
C2_OneUnitGapIsResting ==
    Called =>
        \A r \in Obstacles :
            /\ RestingAhead(r) =>
                  /\ last.difference = 0
                  /\ last.cb => last.stopped = << r >>
            /\ (TouchingAhead(r) /\ FirstHit(r)) =>
                  /\ last.difference = -Sign(last.vel) * Unit
                  /\ last.stopped = << >>

\* A move with a callback, from 1 unit away into an obstacle, was stopped
\* by it.
C2_Witness ==
    /\ Called
    /\ last.cb
    /\ \E r \in Obstacles : RestingAhead(r) /\ last.stopped = << r >>

\* C3 as stated: no call displaces the entity by more than |v|.
C3_DisplacementWithinVelocity ==
    Called => Abs(last.difference) <= Abs(last.vel)

\* The clamp against the reported rectangle is no farther from before than
\* |vel|: the original variant's "valid".
ClampValid ==
    Abs(clampAt(pre, last.e, last.collided_with, last.axis, last.vel) - last.before)
        <= Abs(last.vel)

C5_ClampOneUnitClear ==
    (Called /\ last.vel # 0 /\ last.collided_with # null) =>
        LET r    == last.collided_with
            e    == last.e
            size == sizeName(last.axis)
        IN  /\ last.vel < 0 =>
                  rects[e][last.axis] = pre[r][last.axis] + pre[r][size] + Unit
            /\ last.vel > 0 =>
                  rects[e][last.axis] = pre[r][last.axis] - pre[e][size] - Unit
            /\ gap(rects, e, r, last.axis, last.vel) = Unit
            /\ ~collision(rects[r], rects[e])

\* A move toward larger coordinates was cut short by an obstacle whose size
\* differs from the entity's.
C5_Witness ==
    /\ Called
    /\ last.vel > 0
    /\ last.collided_with # null
    /\ last.difference > 0
    /\ rects[last.collided_with][sizeName(last.axis)]
         # rects[last.e][sizeName(last.axis)]

\* C6: the rectangle reported and clamped against is the first one, in
\* store order, that the tentative position meets; the final coordinate
\* depends on it alone, and with none met the entity keeps before + v.
C6_FirstCollisionDecides ==
    Called =>
        IF Hits = {}
        THEN /\ last.collided_with = null
             /\ last.after = last.before + last.vel
        ELSE \E r \in Hits :
                /\ FirstHit(r)
                /\ last.collided_with = r
                /\ last.after = IF last.vel = 0
                                 THEN last.before
                                 ELSE clampAt(pre, last.e, r, last.axis, last.vel)

\* The tentative position met two obstacles that clamp to different places.
C6_Witness ==
    /\ Called
    /\ last.vel # 0
    /\ \E r, q \in Hits :
          /\ r < q
          /\ last.collided_with = r
          /\ clampAt(pre, last.e, q, last.axis, last.vel)
               # clampAt(pre, last.e, r, last.axis, last.vel)

\* C7: stopped is called at most once, and exactly when a callback was
\* supplied, the displacement is 0 and a rectangle collided; its argument
\* is that rectangle, never null.
C7_StoppedOnceWhenBlocked ==
    Called =>
        /\ Len(last.stopped) <= 1
        /\ Len(last.stopped) = 1 <=> (last.cb /\ last.difference = 0 /\ Hits # {})
        /\ Len(last.stopped) = 1 =>
              /\ last.stopped[1] # null
              /\ last.stopped[1] = last.collided_with
              /\ last.stopped[1] \in Hits

\* A call with a callback was fully blocked and called it.
C7_Witness ==
    /\ Called
    /\ last.cb
    /\ last.vel # 0
    /\ last.difference = 0
    /\ Len(last.stopped) = 1

\* The three outcomes of a call.
BlockedFully == last.difference = 0 /\ last.collided_with # null

BlockedPartly ==
    /\ last.collided_with # null
    /\ Sign(last.difference) = Sign(last.vel)
    /\ 0 < Abs(last.difference)
    /\ Abs(last.difference) < Abs(last.vel)

Unblocked == last.difference = last.vel /\ last.collided_with = null

\* Before the call e neither touched nor overlapped any obstacle.
StartedClear == \A r \in Obstacles : ~boxMeet(pre[r], pre[last.e])

\* C8 as stated: every call ends blocked fully, blocked partly or unblocked
\* (the three exclude each other), so none moves the entity against v.
C8_ThreeOutcomes ==
    Called => (BlockedFully \/ BlockedPartly \/ Unblocked)

\* The fourth outcome: a collision that moves e against v, to 1 unit clear
\* of the reported rectangle on the side opposite to the motion.
PushedBack ==
    /\ last.collided_with # null
    /\ last.vel # 0
    /\ Sign(last.difference) = -Sign(last.vel)
    /\ last.after = clampAt(pre, last.e, last.collided_with, last.axis, last.vel)

\* C8 amended: every call ends blocked fully, blocked partly, unblocked or
\* pushed back against v; it is pushed back only when e touched or
\* overlapped a solid rectangle before the call, so a call made clear of
\* every solid rectangle ends in one of the first three outcomes.
C8_FourOutcomes ==
    Called =>
        /\ BlockedFully \/ BlockedPartly \/ Unblocked \/ PushedBack
        /\ PushedBack => ~StartedClear

\* A call made clear of every obstacle was blocked partly.
C8_Witness ==
    /\ Called
    /\ StartedClear
    /\ BlockedPartly

\* Every coordinate and size is a whole number of units.
IntegerValued ==
    \A i \in 1..Len(rects) :
        \A a \in {"x", "y", "width", "height"} : rects[i][a] % Unit = 0

\* Free space between the closed boxes of a and b along x and along y
\* (negative when they overlap there).
gapX(a, b) ==
    IF a.x <= b.x THEN b.x - (a.x + a.width) ELSE a.x - (b.x + b.width)

gapY(a, b) ==
    IF a.y <= b.y THEN b.y - (a.y + a.height) ELSE a.y - (b.y + b.height)

\* The pairs of boxes collision() is asked about: any two rectangles of the
\* scene as it stands, or as it stood with e at its tentative position.
Scenes == IF Called THEN {rects, tentative} ELSE {rects}

\* C9: on integer-valued rectangles collision(A, B) is the exact closed
\* test: true when the boxes touch at zero gap, false when 1 unit or more
\* lies between them on either axis, the tolerance changing nothing.
C9_CollisionIsClosedBoxTest ==
    /\ IntegerValued
    /\ \A sc \in Scenes :
          \A i, j \in 1..Len(sc) :
              /\ collision(sc[i], sc[j]) = boxMeet(sc[i], sc[j])
              /\ (gapX(sc[i], sc[j]) >= Unit \/ gapY(sc[i], sc[j]) >= Unit)
                    => ~collision(sc[i], sc[j])
              /\ (gapX(sc[i], sc[j]) <= 0 /\ gapY(sc[i], sc[j]) <= 0)
                    => collision(sc[i], sc[j])

\* A move was blocked by a rectangle its tentative position only touched,
\* in a scene holding another rectangle exactly 1 unit from the entity.
C9_Witness ==
    /\ Called
    /\ last.collided_with # null
    /\ gap(tentative, last.e, last.collided_with, last.axis, last.vel) = 0
    /\ \E q \in Obstacles :
          /\ gapX(tentative[q], tentative[last.e]) = Unit
          /\ gapY(tentative[q], tentative[last.e]) <= 0

\* C10: collision(A, B) = collision(B, A) for all rectangles A, B.
C10_CollisionSymmetric ==
    \A sc \in Scenes :
        \A i, j \in 1..Len(sc) :
            collision(sc[i], sc[j]) = collision(sc[j], sc[i])

\* A move was blocked by a rectangle of another size that its tentative
\* position touched edge to edge, while a third rectangle stayed clear.
C10_Witness ==
    /\ Called
    /\ last.collided_with # null
    /\ gap(tentative, last.e, last.collided_with, last.axis, last.vel) = 0
    /\ rects[last.collided_with][sizeName(last.axis)]
         # rects[last.e][sizeName(last.axis)]
    /\ \E q \in Obstacles : ~collision(tentative[q], tentative[last.e])

\* The rectangles move() must pass over: e itself, the traversable ones and
\* the children of a pattern.
Excluded ==
    {r \in 1..Len(rects) : r = last.e \/ rects[r].traversable \/ rects[r].pattern}

\* C11: move never reports, and never clamps e against, e itself, a
\* traversable rectangle or a child of a pattern, wherever they lie: the
\* rectangle reported is none of them, and when they are all the tentative
\* position meets, e keeps before + v.
C11_ExcludedNeverBlock ==
    Called =>
        /\ last.collided_with \notin Excluded
        /\ Hits = {} => (last.collided_with = null
                          /\ last.after = last.before + last.vel)
        /\ last.collided_with # null =>
              last.after = IF last.vel = 0
                           THEN last.before
                           ELSE clampAt(pre, last.e, last.collided_with,
                                        last.axis, last.vel)

\* A move ended on top of a traversable rectangle or a child of a pattern,
\* unhindered.
C11_Witness ==
    /\ Called
    /\ last.vel # 0
    /\ last.difference = last.vel
    /\ \E r \in Excluded \ {last.e} : boxMeet(rects[r], rects[last.e])

\* C12: a move of 0 has displacement 0, leaves the coordinate as it was, and
\* calls stopped only when e touched or overlapped a solid rectangle before
\* the call.
C12_ZeroVelocityStays ==
    (Called /\ last.vel = 0) =>
        /\ last.difference = 0
        /\ rects[last.e][last.axis] = last.before
        /\ rects = pre
        /\ last.stopped # << >> => ~StartedClear

\* A move of 0 by an entity touching an obstacle called stopped.
C12_Witness ==
    /\ Called
    /\ last.vel = 0
    /\ last.cb
    /\ last.stopped # << >>
    /\ ~StartedClear

\* A step of the frame loop.  The input handlers write the latch and
\* nothing else, so a step that changes the state and leaves the latch as
\* it was is a run of main(); and every run of main() changes the state,
\* each scene having an elevator that it moves or reverses.
TickStep ==
    /\ left' = left
    /\ right' = right
    /\ jumping' = jumping
    /\ fire' = fire
    /\ down' = down
    /\ vars' # vars

\* ------------------------------------------------------------ the last tick
\* The player and the elevators of the scene, as main() finds them.
movable == querySelector(rects, "movable")

lifts == querySelectorAll(rects, "elevator", 1)

\* The calls of move() the last tick made, in order, and those among them
\* that are not the coupled moves of the player.
calls == frame.calls

own_steps == SelectSeq(calls, LAMBDA c : c.step # "coupled")

\* The tick's call of move() for a step that is made at most once.
HasStep(name) == \E i \in 1..Len(calls) : calls[i].step = name

StepOf(name) == calls[CHOOSE i \in 1..Len(calls) : calls[i].step = name]

\* C13: every tick calls move() in one order: the gravity move of the
\* player (y, +3) first, then one move for every elevator in document order
\* (each preceded at most by the coupled move of the player), then the
\* ascent of the jump step if there is one, and the run move (x) last; none
\* of them twice.
C13_FixedStepOrder ==
    frame.ticked =>
        LET n == Len(calls)
            k == Len(lifts)
            b == Len(own_steps)
        IN  /\ calls[1] = [calls[1] EXCEPT !.step = "gravity", !.e = movable,
                                           !.axis = "y", !.vel = 3 * Unit]
            /\ calls[n] = [calls[n] EXCEPT !.step = "run", !.e = movable, !.axis = "x"]
            /\ b \in {k + 2, k + 3}
            /\ \A i \in 1..k : /\ own_steps[i + 1].step = "elevator"
                               /\ own_steps[i + 1].e = lifts[i]
                               /\ own_steps[i + 1].axis = "y"
            /\ b = k + 3 => own_steps[k + 2] = [own_steps[k + 2] EXCEPT
                                                  !.step = "ascent", !.e = movable,
                                                  !.axis = "y", !.vel = -5 * Unit]
            /\ own_steps[b].step = "run"
            /\ \A i \in 1..n : calls[i].step = "coupled" =>
                   /\ i < n
                   /\ calls[i].e = movable
                   /\ calls[i + 1].step = "elevator"
                   /\ calls[i - 1].step \in {"gravity", "elevator"}

\* A tick that made every kind of call: gravity, a coupled move, both
\* elevators, the ascent and a run with nothing pressed.
C13_Witness ==
    /\ frame.ticked
    /\ Len(lifts) = 2
    /\ Len(calls) = 6
    /\ HasStep("coupled")
    /\ HasStep("ascent")
    /\ calls[6].vel = 0

\* C14 as stated: a gravity move that collides and gives less than 3 units
\* makes the rectangle ground, and ground is none only when nothing was hit.
C14_GroundWheneverObstructed ==
    frame.ticked =>
        /\ (calls[1].collided_with # null /\ calls[1].difference # 3 * Unit)
               => frame.ground = calls[1].collided_with
        /\ frame.ground = null => calls[1].collided_with = null

\* C14: ground is the rectangle the gravity move of this tick collided with
\* when that move had displacement 0, and none in every other tick: also in
\* the tick whose gravity move is cut short by a rectangle.
C14_GroundWhenFullyBlocked ==
    frame.ticked =>
        frame.ground = IF calls[1].collided_with # null /\ calls[1].difference = 0
                       THEN calls[1].collided_with
                       ELSE null

\* The gravity move was cut short by a rectangle and ground is none.
C14_Witness ==
    /\ frame.ticked
    /\ calls[1].collided_with # null
    /\ calls[1].difference \in {Unit, 2 * Unit}
    /\ frame.ground = null

\* The last tick let the player fall onto the floor: it made no ascent and no
\* coupled move and no elevator is under the player.
floor == querySelector(rects, "floor")

Falling ==
    /\ frame.ticked
    /\ ~HasStep("ascent")
    /\ ~HasStep("coupled")
    /\ \A i \in 1..Len(lifts) :
           \/ rects[lifts[i]].x > rects[movable].x + rects[movable].width
           \/ rects[movable].x > rects[lifts[i]].x + rects[lifts[i]].width

\* The gap between the player and the floor after the tick and before it.
gap_after == rects[floor].y - (rects[movable].y + rects[movable].height)

gap_before == gap_after + calls[1].difference

\* C15 as stated: from a gap above 3 the player falls 3; from a gap below 3
\* it ends 1 unit above the floor and the callback of that same tick makes
\* the floor ground.
C15_LandsAndGroundsAtOnce ==
    Falling =>
        /\ gap_before > 3 * Unit => calls[1].difference = 3 * Unit
        /\ gap_before < 3 * Unit => (gap_after = Unit /\ frame.ground = floor)

\* C15: a falling player more than 3 units above the floor falls 3; from 2
\* or 3 units it ends 1 unit above the floor and ground stays none in that
\* tick; the gravity callback makes the floor ground only in a tick that
\* starts 1 unit above it, the tick after the landing.
C15_LandsThenGrounds ==
    Falling =>
        /\ gap_before > 3 * Unit =>
               (calls[1].difference = 3 * Unit /\ frame.ground = null)
        /\ gap_before \in {2 * Unit, 3 * Unit} =>
               (gap_after = Unit /\ frame.ground = null)
        /\ gap_before = Unit =>
               (gap_after = Unit /\ frame.ground = floor)
        /\ gap_before >= Unit

\* The player came down from 2 units to 1 unit above the floor.
C15_Witness ==
    /\ Falling
    /\ gap_before = 2 * Unit
    /\ gap_after = Unit
    /\ frame.ground = null

\* C16: a tick sets jump_counter to 15 (and so counts it down to 14) exactly
\* when it reads the jump intent true, the tick before read it false (or
\* there was none) and ground is not none in this tick.
C16_JumpOnGroundedRisingEdge ==
    [][TickStep =>
          /\ (frame'.counted = JumpTicks - 1)
                 <=> (jumping /\ ~frame.intent /\ frame'.ground # null)
          /\ frame'.jump <=> frame'.counted = JumpTicks - 1
          /\ frame'.ground = null => ~frame'.jump]_vars

\* A jump has just started on a ground.
C16_Witness ==
    /\ frame.ticked
    /\ frame.jump
    /\ frame.ground # null
    /\ frame.counted = JumpTicks - 1

\* C17: in the k-th tick of a jump, counting the tick that started it as the
\* first, jump_counter ends at 15 - k and the ascent move is made, as long
\* as no roof was hit: it is 0 at the end of the 15th tick and not before.
C17_JumpLastsFifteenTicks ==
    frame.age > 0 =>
        /\ frame.age <= JumpTicks
        /\ jump_counter = JumpTicks - frame.age
        /\ HasStep("ascent")
        /\ frame.jump <=> frame.age = 1

\* The 15th tick of a jump ended with the counter at 0.
C17_Witness ==
    /\ frame.age = JumpTicks
    /\ jump_counter = 0
    /\ HasStep("ascent")

\* The displacement of the gravity move plus that of the ascent move.
vertical_displacement ==
    calls[1].difference + (IF HasStep("ascent") THEN StepOf("ascent").difference ELSE 0)

\* C18: a tick that leaves jump_counter > 0 after the decrement and has
\* vertical displacement 0 ends with jump_counter 0, and the tick after it
\* makes no ascent move unless it starts a jump.
C18_RoofHitEndsJump ==
    [][TickStep =>
          /\ (frame'.counted > 0 /\ vertical_displacement' = 0) => jump_counter' = 0
          /\ (frame.counted > 0 /\ vertical_displacement = 0 /\ ~frame'.jump)
                 => ~HasStep("ascent")']_vars

\* The ascent was stopped under a ceiling and the jump given up.
C18_Witness ==
    /\ frame.ticked
    /\ frame.counted > 0
    /\ HasStep("ascent")
    /\ StepOf("ascent").collided_with # null
    /\ vertical_displacement = 0
    /\ jump_counter = 0

\* C19: since the last tick that read the jump intent false at most one
\* tick has started a jump.
C19_OneJumpPerPress ==
    frame.held <= 1

\* The player stands on a ground with the jump intent held from before it
\* landed, and no jump starts.
C19_Witness ==
    /\ frame.ticked
    /\ frame.intent
    /\ frame.held = 0
    /\ frame.ground # null
    /\ ~frame.jump
    /\ jump_counter = 0

\* C20 as stated: after a tick in which an elevator's own move, made with
\* velocity k, collided with a rectangle, player or scenery, its velocity
\* is -k.
C20_BlockedElevatorReverses ==
    frame.ticked =>
        \A i \in 1..Len(calls) :
            (calls[i].step = "elevator" /\ calls[i].collided_with # null) =>
                rects[calls[i].e].elevator_vel = -calls[i].vel

\* The velocity main() finds on elevator E, +1 if none is set yet.
current_vel(E) ==
    IF rects[E].elevator_vel = null THEN Unit ELSE rects[E].elevator_vel

\* The index, among the calls of the last tick, of E's own move.
own_move(E) ==
    CHOOSE j \in 1..Len(calls) : calls[j].step = "elevator" /\ calls[j].e = E

\* C21: in every tick, for every elevator E, a move of the player on y by
\* E's velocity is called, right before E's own move by the same velocity,
\* exactly when ground is E, whether E goes up or down.
C21_CoupledMoveBeforeElevator ==
    [][TickStep =>
          \A i \in 1..Len(lifts) :
              LET E == lifts[i]
                  j == own_move(E)'
              IN  /\ calls'[j].vel = current_vel(E)
                  /\ calls'[j].axis = "y"
                  /\ frame'.ground = E <=> calls'[j - 1].step = "coupled"
                  /\ frame'.ground = E =>
                         calls'[j - 1] = [calls'[j - 1] EXCEPT
                                            !.e = movable, !.axis = "y",
                                            !.vel = current_vel(E)]]_vars

\* The player stood on an elevator going down and the coupled move was made.
C21_Witness ==
    /\ frame.ticked
    /\ \E j \in 1..Len(calls) :
           /\ calls[j].step = "coupled"
           /\ calls[j].vel = Unit
           /\ calls[j + 1].e = frame.ground

\* C22: every tick finds each elevator at +1 (when none is set yet) or at
\* the +1 or -1 the tick before left, moves it with that velocity, and
\* leaves either the same velocity or, only when the elevator's own move
\* collided and did not move it, the negated one; nothing else changes it.
C22_VelocityOnlyNegatedWhenBlocked ==
    [][\A i \in 1..Len(lifts) :
          LET E == lifts[i]
          IN  IF TickStep
              THEN /\ current_vel(E) \in {Unit, -Unit}
                   /\ ~frame.ticked => current_vel(E) = Unit
                   /\ calls'[own_move(E)'].vel = current_vel(E)
                   /\ rects'[E].elevator_vel \in {current_vel(E), -current_vel(E)}
                   /\ rects'[E].elevator_vel = -current_vel(E) =>
                          /\ calls'[own_move(E)'].collided_with # null
                          /\ calls'[own_move(E)'].difference = 0
              ELSE rects'[E].elevator_vel = rects[E].elevator_vel]_vars

\* One elevator was blocked and reversed while the other moved on as it was.
C22_Witness ==
    /\ frame.ticked
    /\ \E i, k \in 1..Len(lifts) :
           /\ calls[own_move(lifts[i])].collided_with # null
           /\ rects[lifts[i]].elevator_vel = -calls[own_move(lifts[i])].vel
           /\ calls[own_move(lifts[k])].collided_with = null
           /\ rects[lifts[k]].elevator_vel = calls[own_move(lifts[k])].vel

\* The rectangles that nothing moves.
Scenery == {r \in 1..Len(rects) : r # movable /\ rects[r].class # "elevator"}

\* E has a piece of scenery exactly 1 unit above it and one exactly 1 unit
\* below it.
HeldTight(E) ==
    /\ \E r \in Scenery :
           /\ overlapsAcross(rects, E, r, "y")
           /\ gap(rects, E, r, "y", -1) = Unit
    /\ \E r \in Scenery :
           /\ overlapsAcross(rects, E, r, "y")
           /\ gap(rects, E, r, "y", 1) = Unit

\* C23: a tick that finds an elevator with a piece of scenery 1 unit above
\* it and one 1 unit below it negates its velocity and leaves it where it
\* was, so the next tick finds it held again.
C23_HeldElevatorReversesEveryTick ==
    [][TickStep =>
          \A i \in 1..Len(lifts) :
              HeldTight(lifts[i]) =>
                  /\ rects'[lifts[i]].elevator_vel = -current_vel(lifts[i])
                  /\ rects'[lifts[i]].y = rects[lifts[i]].y
                  /\ HeldTight(lifts[i])']_vars

\* A held elevator that was going up is reversed once more.
C23_Witness ==
    /\ frame.ticked
    /\ \E i \in 1..Len(lifts) :
           /\ HeldTight(lifts[i])
           /\ calls[own_move(lifts[i])].vel = -Unit
           /\ calls[own_move(lifts[i])].difference = 0
           /\ rects[lifts[i]].elevator_vel = Unit

\* Event ev was written to the console by the last tick.
emitted(ev) == \E k \in 1..Len(frame.events) : frame.events[k] = ev

\* C24: a tick emits "hit the ground" exactly when it has a ground and the
\* tick before had none (the first tick has no tick before it); it then
\* leaves its ground in ground_previous, so the event is never emitted in
\* two ticks in a row.
C24_LandedEventOnRisingEdge ==
    [][TickStep =>
          /\ emitted("hit the ground")' <=>
                 (frame'.ground # null /\ frame.ground = null)
          /\ ground_previous = frame.ground
          /\ ground_previous' = frame'.ground
          /\ emitted("hit the ground")' => ~emitted("hit the ground")]_vars

\* The player stands for a second tick on the rectangle it landed on: the
\* event was emitted once and is not emitted again.
C24_Witness ==
    /\ frame.ticked
    /\ frame.ground # null
    /\ ground_previous = frame.ground
    /\ ~emitted("hit the ground")
    /\ frame.calls[1].difference = 0

\* C25: every tick leaves running at -1 when left is pressed and right is
\* not, at +1 when right is pressed and left is not, and at 0 otherwise, and
\* its run step asks move() for 3 * running on x for the player.
C25_RunIsThreeTimesDirection ==
    [][TickStep =>
          /\ running' = -1 <=> (left /\ ~right)
          /\ running' = 1 <=> (right /\ ~left)
          /\ running' = 0 <=> (left <=> right)
          /\ HasStep("run")'
          /\ StepOf("run")'.e = movable
          /\ StepOf("run")'.axis = "x"
          /\ StepOf("run")'.vel = 3 * running' * Unit]_vars

\* A tick ran the player to the left, and both keys are pressed by now.
C25_Witness ==
    /\ frame.ticked
    /\ running = -1
    /\ StepOf("run").vel = -3 * Unit
    /\ left
    /\ right

\* What main() and move() write, and the elevators' velocities with it.
physics == << rects, running, jumping_previous, jump_counter,
             ground_previous, frame >>

\* C26: a tick works with the latch as the last input event left it (the
\* intent it compares and stores, the direction it runs in; a jump starts
\* only in a tick that reads the jump intent true), and a step that is not
\* a tick changes nothing but the latch.
C26_TickReadsLatchAsLeft ==
    [][IF TickStep
       THEN /\ frame'.intent = jumping
            /\ jumping_previous' = jumping
            /\ frame'.jump => jumping
            /\ running' # 0 => (IF running' < 0 THEN left ELSE right)
       ELSE physics' = physics]_vars

\* The jump intent was pressed on the ground after the last tick: no tick
\* has seen it and no jump is under way.
C26_Witness ==
    /\ frame.ticked
    /\ frame.ground # null
    /\ ~frame.intent
    /\ jumping
    /\ jump_counter = 0

\* C27: a step that writes the latch (a key, mouse or touch handler)
\* changes no rectangle, no elevator velocity, and none of running,
\* jump_counter, jumping_previous and ground_previous.
C27_HandlersWriteLatchOnly ==
    [][(left' # left \/ right' # right \/ jumping' # jumping \/ fire' # fire) =>
          /\ rects' = rects
          /\ \A i \in 1..Len(lifts) :
                 rects'[lifts[i]].elevator_vel = rects[lifts[i]].elevator_vel
          /\ jump_counter' = jump_counter
          /\ jumping_previous' = jumping_previous
          /\ ground_previous' = ground_previous
          /\ running' = running]_vars

\* The jump key was released while the jump it started goes on.
C27_Witness ==
    /\ frame.ticked
    /\ frame.intent
    /\ ~jumping
    /\ jump_counter > 0

\* C28: a step that changes fire changes nothing else, and a tick neither
\* writes fire nor (main() having no occurrence of it) reads it; so two
\* runs that differ only in their fire events agree on everything but fire
\* at every tick.
C28_FireChangesNothing ==
    [][/\ fire' # fire =>
              /\ physics' = physics
              /\ left' = left
              /\ right' = right
              /\ jumping' = jumping
              /\ last' = last
       /\ physics' # physics => fire' = fire]_vars

\* Fire is held during a jump.
C28_Witness ==
    /\ frame.ticked
    /\ fire
    /\ jump_counter > 0
    /\ jump_counter < JumpTicks - 1

\* The scenery the player rests below, 1 unit from it.
Overhead == {r \in Scenery : /\ overlapsAcross(rects, movable, r, "y")
                             /\ gap(rects, movable, r, "y", -1) = Unit}

\* C30: in a tick that finds the player 1 unit below a piece of scenery and
\* on an elevator going up, the coupled move of the player is blocked
\* (displacement 0, "elevator stopped while carrying player" emitted), the
\* elevator's own move that follows is blocked by the player (displacement
\* 0) and leaves the elevator going down, and the tick ends with the
\* player colliding with neither that scenery nor the elevator.
C30_SqueezeStopsPlayerAndElevator ==
    [][TickStep =>
          \A i \in 1..Len(lifts) :
              LET E == lifts[i]
                  j == own_move(E)'
              IN  (frame'.ground = E /\ current_vel(E) = -Unit /\ Overhead # {}) =>
                      /\ calls'[j - 1].step = "coupled"
                      /\ calls'[j - 1].difference = 0
                      /\ calls'[j - 1].stopped
                      /\ emitted("elevator stopped while carrying player")'
                      /\ calls'[j].collided_with = movable
                      /\ calls'[j].difference = 0
                      /\ calls'[j].stopped
                      /\ rects'[E].elevator_vel = Unit
                      /\ ~collision(rects'[movable], rects'[E])
                      /\ \A r \in Overhead :
                             ~collision(rects'[movable], rects'[r])]_vars

\* The player was squeezed between the ceiling and the elevator that
\* carried it up: both moves were blocked and the elevator now goes down.
C30_Witness ==
    /\ frame.ticked
    /\ Overhead # {}
    /\ emitted("elevator stopped while carrying player")
    /\ emitted("elevator collided with player")
    /\ \E j \in 1..Len(calls) :
           /\ calls[j].step = "coupled"
           /\ calls[j].vel = -Unit
           /\ calls[j].difference = 0
           /\ calls[j + 1].e = frame.ground
           /\ rects[frame.ground].elevator_vel = Unit

\* The tick of version 2.0 and the tick of the preceding variant, both run
\* from the present state.
tick_now == main(rects, left, right, jumping,
                 jumping_previous, jump_counter, ground_previous)

tick_before == main001(rects, left, right, jumping,
                       jumping_previous, jump_counter, ground_previous)

\* C29 as stated: from every state the game reaches, the tick of version
\* 2.0 and the tick of the preceding variant leave the player and the
\* elevators at the same positions, with the same ground, jump_counter and
\* elevator velocities.
C29_SameTickAsPrecedingVariant ==
    /\ \A i \in 1..Len(rects) :
           /\ tick_now.rects[i].x = tick_before.rects[i].x
           /\ tick_now.rects[i].y = tick_before.rects[i].y
           /\ tick_now.rects[i].elevator_vel = tick_before.rects[i].elevator_vel
    /\ tick_now.ground = tick_before.ground
    /\ tick_now.jump_counter = tick_before.jump_counter

\* The player stood on elevator E in the last tick, no intent is pressed, no
\* jump is under way and the player collides with nothing.
Rides(E) ==
    /\ frame.ticked
    /\ frame.ground = E
    /\ rects[E].class = "elevator"
    /\ ~left /\ ~right /\ ~jumping /\ ~jumping_previous
    /\ jump_counter = 0
    /\ \A r \in 1..Len(rects) : r # movable => ~collision(rects[movable], rects[r])

\* The gap between the player's bottom edge and the top edge of E.
gap_above(E) == rects[E].y - (rects[movable].y + rects[movable].height)

\* C31 as stated: a tick that finds the player riding an elevator has that
\* elevator as ground again, whichever way the elevator goes, and leaves the
\* gap between the player and the elevator as it was.
C31_GroundedThroughoutRide ==
    [][TickStep =>
          \A i \in 1..Len(lifts) :
              Rides(lifts[i]) =>
                  /\ frame'.ground = lifts[i]
                  /\ gap_above(lifts[i])' = gap_above(lifts[i])]_vars

\* C32 as stated: the coupled move whose callback emits "elevator stopped
\* while carrying player" was blocked by a rectangle other than the
\* elevator the player rides, which is the one moved right after it.
C32_StoppedOnlyByAnotherRectangle ==
    frame.ticked =>
        \A j \in 1..Len(calls) :
            (calls[j].step = "coupled" /\ calls[j].stopped) =>
                calls[j].collided_with # calls[j + 1].e

\* C33 as stated: at the end of every tick the player collides with no
\* rectangle of the scene (none of them is traversable).
C33_PlayerNeverCollides ==
    frame.ticked =>
        \A r \in 1..Len(rects) :
            r # movable => ~collision(rects[movable], rects[r])

\* C34: a tick forces jump_counter to 0 only when its ascent move collided
\* with a rectangle; a tick whose ascent move met none leaves jump_counter
\* as counted down, whatever the displacement of its gravity move.
C34_RoofHitOnlyOnCollision ==
    frame.ticked =>
        /\ frame.roof => (HasStep("ascent") /\ StepOf("ascent").collided_with # null)
        /\ (HasStep("ascent") /\ StepOf("ascent").collided_with = null) =>
               /\ ~frame.roof
               /\ ~emitted("roof hit")
               /\ jump_counter = frame.counted
               /\ StepOf("ascent").difference = -5 * Unit

\* The player fell 3 units and rose 3 to the ceiling in one tick: the roof
\* was hit with a gravity displacement that is not 0.
C34_Witness ==
    /\ frame.ticked
    /\ frame.roof
    /\ calls[1].difference = 3 * Unit
    /\ StepOf("ascent").difference = -3 * Unit
    /\ StepOf("ascent").collided_with # null
    /\ jump_counter = 0

\* The game in the yard under the timer of initialize() (lines 245-267),
\* which calls main() again and again.  main() can always run and always
\* changes the state, so weak fairness of the frame loop, WF_vars(Tick), is
\* that steps of the frame loop never cease.
SpecYard == InitYard /\ [][NextTick]_vars /\ []<><<TickStep>>_vars

\* The elevator of the yard and the scenery that bounds its travel.
hoist == querySelector(rects, "hoist")

stop == querySelector(rects, "stop")

below == gap(rects, hoist, floor, "y", 1)

above == gap(rects, hoist, stop, "y", -1)

\* C35: the elevator between the stop and the floor keeps at least 1 unit
\* from both at all times, and again and again rests 1 unit above the floor,
\* rests 1 unit below the stop, goes down and goes up.
C35_ElevatorShuttlesForever ==
    /\ [](below >= Unit /\ above >= Unit)
    /\ []<>(below = Unit)
    /\ []<>(above = Unit)
    /\ []<>(rects[hoist].elevator_vel = Unit)
    /\ []<>(rects[hoist].elevator_vel = -Unit)

\* The elevator has travelled more than 1 unit up to the stop, was blocked
\* there and goes down again.
C35_Witness ==
    /\ frame.ticked
    /\ above = Unit
    /\ below > 2 * Unit
    /\ rects[hoist].elevator_vel = Unit
    /\ calls[own_move(hoist)].collided_with = stop
    /\ calls[own_move(hoist)].difference = 0

\* C36: jump_counter is between 0 and 14 whenever no tick is under way (15
\* only between the trigger and the decrement of one tick); a tick raises
\* it only by starting a jump, an input handler never changes it, and a
\* tick asks for the player's move by -5 on y exactly when jump_counter,
\* set to 15 if the tick starts a jump, is above 0.
C36_JumpCounterBounds ==
    [][/\ jump_counter \in 0..(JumpTicks - 1)
       /\ jump_counter' \in 0..(JumpTicks - 1)
       /\ IF TickStep
          THEN /\ frame'.counted \in 0..(JumpTicks - 1)
               /\ jump_counter' > jump_counter => frame'.jump
               /\ frame'.jump => frame'.counted = JumpTicks - 1
               /\ ~frame'.jump => frame'.counted = (IF jump_counter > 0
                                                    THEN jump_counter - 1 ELSE 0)
               /\ HasStep("ascent")' <=> (frame'.jump \/ jump_counter > 0)
               /\ HasStep("ascent")' =>
                      /\ StepOf("ascent")'.e = movable
                      /\ StepOf("ascent")'.axis = "y"
                      /\ StepOf("ascent")'.vel = -5 * Unit
          ELSE jump_counter' = jump_counter]_vars

\* A jump started in the last tick: the counter went from 0 through 15 to
\* 14 and the first move up was made.
C36_Witness ==
    /\ frame.ticked
    /\ frame.jump
    /\ jump_counter = JumpTicks - 1
    /\ StepOf("ascent").vel = -5 * Unit
    /\ StepOf("ascent").difference = -5 * Unit

\* C37 as stated: an intent is true whenever its arrow key or its on-screen
\* button is held down, so every tick reads it true.
C37_IntentTrueWhileAnySourceHeld ==
    /\ ("ArrowLeft" \in down \/ "left" \in down) => left
    /\ ("ArrowRight" \in down \/ "right" \in down) => right
    /\ ("ArrowUp" \in down \/ "third" \in down) => jumping

====
